---- MODULE Spec2Model ----
(***************************************************************************)
(* flash-flags: the value resolution and parsing engine of FlagSet.        *)
(*                                                                         *)
(* Strings of the program (argument tokens, flag names, raw values,        *)
(* environment variable names) are sequences of one-character strings, so  *)
(* that prefix tests, splitting on '=' and ',' and the numeric, boolean    *)
(* and duration grammars are computed character by character as the Go     *)
(* code computes them.  Typed flag values are: a character sequence        *)
(* (string), an integer (int), a BOOLEAN (bool), an integer number of      *)
(* milliseconds (duration) and a sequence of character sequences           *)
(* (stringSlice).                                                          *)
(***************************************************************************)
EXTENDS Integers, Sequences, FiniteSets, TLC

VARIABLES
    fs,      \* the FlagSet: flags, shortMap, configLoaded, envPrefix, enableEnvLookup, configFile
    world,   \* what the process sees outside the FlagSet: config file content, environment, token pool
    call,    \* the activation of Parse: pc, args, i, err, and what it has done so far
    parses,  \* number of Parse calls started
    readers  \* the goroutines that read the FlagSet: each one's position and last result

vars == <<fs, world, call, parses, readers>>

(***************************************************************************)
(* Bounds of the model.                                                    *)
(***************************************************************************)
MaxArgs == 2
MaxParses == 2
MaxReaders == 2

(***************************************************************************)
(* Characters and strings.                                                 *)
(***************************************************************************)
DigitChars == <<"0", "1", "2", "3", "4", "5", "6", "7", "8", "9">>

LowerChars == <<"a", "b", "c", "d", "e", "f", "g", "h", "i", "j", "k", "l", "m",
                "n", "o", "p", "q", "r", "s", "t", "u", "v", "w", "x", "y", "z">>

UpperChars == <<"A", "B", "C", "D", "E", "F", "G", "H", "I", "J", "K", "L", "M",
                "N", "O", "P", "Q", "R", "S", "T", "U", "V", "W", "X", "Y", "Z">>

IsDigit(c) == \E k \in 1..Len(DigitChars) : DigitChars[k] = c

DigitVal(c) == (CHOOSE k \in 1..Len(DigitChars) : DigitChars[k] = c) - 1

\* strings.HasPrefix
HasPrefix(s, p) == Len(s) >= Len(p) /\ SubSeq(s, 1, Len(p)) = p

\* strings.IndexByte, 0-based as in Go; -1 when c does not occur
IndexByte(s, c) ==
    IF \E k \in 1..Len(s) : s[k] = c
    THEN (CHOOSE k \in 1..Len(s) : s[k] = c /\ \A j \in 1..(k - 1) : s[j] # c) - 1
    ELSE -1

\* the Go slice expression s[from:] with a 0-based index
SliceFrom(s, from) == SubSeq(s, from + 1, Len(s))

\* the Go slice expression s[:to] with a 0-based index
SliceTo(s, to) == SubSeq(s, 1, to)

ToUpperChar(c) ==
    IF \E k \in 1..Len(LowerChars) : LowerChars[k] = c
    THEN UpperChars[CHOOSE k \in 1..Len(LowerChars) : LowerChars[k] = c]
    ELSE c

\* strings.ToUpper(strings.ReplaceAll(flagName, "-", "_"))
EnvNameOf(flagName) ==
    [k \in 1..Len(flagName) |->
        IF flagName[k] = "-" THEN "_" ELSE ToUpperChar(flagName[k])]

(***************************************************************************)
(* Type converter: raw string -> typed value.                              *)
(***************************************************************************)
RECURSIVE DigitsValue(_)
DigitsValue(ds) ==
    IF ds = <<>> THEN 0
    ELSE 10 * DigitsValue(SubSeq(ds, 1, Len(ds) - 1)) + DigitVal(ds[Len(ds)])

\* strconv.Atoi: an optional sign, then one or more decimal digits
\* whether s starts with a sign, and s without it
HasSign(s) == Len(s) > 0 /\ s[1] \in {"+", "-"}

Unsigned(s) == IF HasSign(s) THEN Tail(s) ELSE s

SignOf(s) == IF HasSign(s) /\ s[1] = "-" THEN -1 ELSE 1

Atoi(s) ==
    IF Unsigned(s) = <<>> \/ \E k \in 1..Len(Unsigned(s)) : ~IsDigit(Unsigned(s)[k])
    THEN [ok |-> FALSE, n |-> 0]
    ELSE [ok |-> TRUE, n |-> SignOf(s) * DigitsValue(Unsigned(s))]

TrueLiterals == { <<"1">>, <<"t">>, <<"T">>, <<"T", "R", "U", "E">>,
                  <<"t", "r", "u", "e">>, <<"T", "r", "u", "e">> }

FalseLiterals == { <<"0">>, <<"f">>, <<"F">>, <<"F", "A", "L", "S", "E">>,
                   <<"f", "a", "l", "s", "e">>, <<"F", "a", "l", "s", "e">> }

\* strconv.ParseBool
ParseBool(s) ==
    IF s \in TrueLiterals THEN [ok |-> TRUE, b |-> TRUE]
    ELSE IF s \in FalseLiterals THEN [ok |-> TRUE, b |-> FALSE]
    ELSE [ok |-> FALSE, b |-> FALSE]

\* the unit table of time.ParseDuration, in milliseconds (the units below one
\* millisecond, and fractions, are outside the alphabet of the raw values used)
UnitMillis(u) ==
    CASE u = <<"m", "s">> -> 1
      [] u = <<"s">> -> 1000
      [] u = <<"m">> -> 60000
      [] u = <<"h">> -> 3600000
      [] OTHER -> 0

\* length of the longest prefix of s made of digits
RECURSIVE DigitPrefixLen(_)
DigitPrefixLen(s) ==
    IF s # <<>> /\ IsDigit(s[1]) THEN 1 + DigitPrefixLen(Tail(s)) ELSE 0

\* length of the longest prefix of s holding no digit (the unit)
RECURSIVE UnitPrefixLen(_)
UnitPrefixLen(s) ==
    IF s # <<>> /\ ~IsDigit(s[1]) THEN 1 + UnitPrefixLen(Tail(s)) ELSE 0

\* the loop of time.ParseDuration: ([0-9]+[a-z]+)+ , summing value * unit
RECURSIVE DurationTerms(_, _)

\* one term of the loop: nd leading digits, then a unit of nu characters
DurationTerm(s, acc, nd, nu) ==
    IF nd = 0 \/ nu = 0 \/ UnitMillis(SubSeq(s, nd + 1, nd + nu)) = 0
    THEN [ok |-> FALSE, d |-> 0]
    ELSE DurationTerms(SliceFrom(s, nd + nu),
                       acc + DigitsValue(SliceTo(s, nd)) * UnitMillis(SubSeq(s, nd + 1, nd + nu)))

DurationTermAfterDigits(s, acc, nd) ==
    DurationTerm(s, acc, nd, UnitPrefixLen(SliceFrom(s, nd)))

DurationTerms(s, acc) ==
    IF s = <<>> THEN [ok |-> TRUE, d |-> acc]
    ELSE DurationTermAfterDigits(s, acc, DigitPrefixLen(s))

SignedDuration(s, r) ==
    IF ~r.ok THEN [ok |-> FALSE, d |-> 0] ELSE [ok |-> TRUE, d |-> SignOf(s) * r.d]

\* time.ParseDuration: [-+]?([0-9]+unit)+, or the single character 0
ParseDuration(s) ==
    IF Unsigned(s) = <<"0">> THEN [ok |-> TRUE, d |-> 0]
    ELSE IF Unsigned(s) = <<>> THEN [ok |-> FALSE, d |-> 0]
    ELSE SignedDuration(s, DurationTerms(Unsigned(s), 0))

\* FlagSet.splitByComma: split on ',', dropping empty segments
RECURSIVE splitByComma(_)

\* the segment before the first comma (at 0-based index c), then the rest
SplitAtComma(value, c) ==
    IF c = -1 THEN <<value>>
    ELSE (IF c = 0 THEN <<>> ELSE <<SliceTo(value, c)>>) \o splitByComma(SliceFrom(value, c + 1))

splitByComma(value) ==
    IF value = <<>> THEN <<>> ELSE SplitAtComma(value, IndexByte(value, ","))

\* FlagSet.parseStringSlice
parseStringSlice(value) ==
    IF value = <<>> THEN <<>> ELSE splitByComma(value)

(***************************************************************************)
(* Errors.  An error is identified by its condition (kind), the flag it    *)
(* names, the dependency it names, and the prefix Parse or a loader wraps  *)
(* around it ("config", "env" or none).                                    *)
(***************************************************************************)
NoName == <<>>

NoErr == [kind |-> "none", flag |-> NoName, dep |-> NoName, wrap |-> "none"]

Err(kind, flag) == [kind |-> kind, flag |-> flag, dep |-> NoName, wrap |-> "none"]

DepErr(kind, flag, dep) == [kind |-> kind, flag |-> flag, dep |-> dep, wrap |-> "none"]

Wrap(src, e) == [e EXCEPT !.wrap = src]

(***************************************************************************)
(* Validators are caller-supplied functions; the model knows them by a     *)
(* name.  "port_range" is the validator of doc.go; "must_be_false" rejects *)
(* the value true of a boolean flag.                                       *)
(***************************************************************************)
ValidatorAccepts(validator, value) ==
    CASE validator = "none" -> TRUE
      [] validator = "port_range" -> value >= 1024 /\ value <= 65535
      [] validator = "must_be_false" -> value = FALSE
      [] OTHER -> TRUE

\* Flag.Validate
Validate(f) ==
    IF f.validator # "none" THEN ValidatorAccepts(f.validator, f.value) ELSE TRUE

\* a Reset that forgets the variable behind the handle and the changed mark:
\* ResetRestoresDefaults must reject it
FlagResetValueOnly(f) == [f EXCEPT !.value = f.defaultValue]

\* Flag.Reset with resetPointer: value and the pointed-to variable go back to the default
FlagReset(f) ==
    [f EXCEPT !.value = f.defaultValue, !.ptr = f.defaultValue, !.changed = FALSE]

(***************************************************************************)
(* Type-specific setters.  Each returns the flag after the call and the    *)
(* error; the flag is returned untouched when the conversion fails.        *)
(***************************************************************************)
Assigned(flag, v) == [flag |-> [flag EXCEPT !.value = v, !.ptr = v], err |-> NoErr]

Refused(flag, e) == [flag |-> flag, err |-> e]

setStringValue(flag, value) == Assigned(flag, value)

\* a setter that writes the converter's result before it looks at the error:
\* FailedConversionWritesNothing must reject it
StoreThenCheck(flag, ok, v, e) ==
    IF ~ok THEN [flag |-> Assigned(flag, v).flag, err |-> e] ELSE Assigned(flag, v)

\* the body of a setter once the raw value is converted: (converted, ok) -> store or refuse
StoreConverted(flag, ok, v, e) == IF ~ok THEN Refused(flag, e) ELSE Assigned(flag, v)

StoreInt(flag, r, name) == StoreConverted(flag, r.ok, r.n, Err("invalid_int", name))

setIntValue(flag, value, name) == StoreInt(flag, Atoi(value), name)

\* a Bool setter that takes the presence of the flag for true, whatever the
\* literal says: BoolLiterals must reject it
StoreBoolPresence(flag, r, name) ==
    StoreConverted(flag, r.ok, TRUE, Err("invalid_bool", name))

StoreBool(flag, r, name) == StoreConverted(flag, r.ok, r.b, Err("invalid_bool", name))

setBoolValue(flag, value, name) == StoreBool(flag, ParseBool(value), name)

StoreDuration(flag, r, name) == StoreConverted(flag, r.ok, r.d, Err("invalid_duration", name))

setDurationValue(flag, value, name) == StoreDuration(flag, ParseDuration(value), name)

setStringSliceValue(flag, value) == Assigned(flag, parseStringSlice(value))

\* FlagSet.setFlagValueByType
setFlagValueByType(flag, value, name) ==
    CASE flag.flagType = "string" -> setStringValue(flag, value)
      [] flag.flagType = "int" -> setIntValue(flag, value, name)
      [] flag.flagType = "bool" -> setBoolValue(flag, value, name)
      [] flag.flagType = "duration" -> setDurationValue(flag, value, name)
      [] flag.flagType = "stringSlice" -> setStringSliceValue(flag, value)
      [] OTHER -> Refused(flag, Err("unsupported_type", name))

\* FlagSet.validateFlag
validateFlag(flag, name) ==
    IF flag.validator # "none" /\ ~ValidatorAccepts(flag.validator, flag.value)
    THEN Err("validation_failed", name)
    ELSE NoErr

\* FlagSet.setFlagValue: look the flag up, convert and store, mark it changed, validate.
\* Returns the registry after the call and the error.
\* the flag is stored back into the registry with the error the call returns
Stored(flags, name, flag, err) == [flags |-> [flags EXCEPT ![name] = flag], err |-> err]

\* a setFlagValue that takes the changed mark back when the validator rejects the
\* value: ChangedNeverCleared must reject it
MarkChangedIfValid(flags, name, flag) ==
    Stored(flags, name,
           [flag EXCEPT !.changed = validateFlag([flag EXCEPT !.changed = TRUE], name) = NoErr],
           validateFlag([flag EXCEPT !.changed = TRUE], name))

\* the flag is marked changed, then validated
MarkChanged(flags, name, flag) ==
    Stored(flags, name, [flag EXCEPT !.changed = TRUE],
           validateFlag([flag EXCEPT !.changed = TRUE], name))

\* what setFlagValue does with the result r of setFlagValueByType
AfterSetByType(flags, name, r) ==
    IF r.err # NoErr THEN Stored(flags, name, r.flag, r.err)
    ELSE MarkChanged(flags, name, r.flag)

\* a setFlagValue that leaves an already changed flag alone, as the environment
\* loader does: CliValueWins must reject it
setFlagValueUnlessChanged(flags, name, value) ==
    IF name \notin DOMAIN flags
    THEN [flags |-> flags, err |-> Err("unknown_flag", name)]
    ELSE IF flags[name].changed THEN [flags |-> flags, err |-> NoErr]
    ELSE AfterSetByType(flags, name, setFlagValueByType(flags[name], value, name))

setFlagValue(flags, name, value) ==
    IF name \notin DOMAIN flags
    THEN [flags |-> flags, err |-> Err("unknown_flag", name)]
    ELSE AfterSetByType(flags, name, setFlagValueByType(flags[name], value, name))

(***************************************************************************)
(* Argument parser.  args is the Go slice, i its 0-based index.  Each      *)
(* operator returns the registry after the call, the number of extra       *)
(* tokens consumed, and the error.                                         *)
(***************************************************************************)
ArgAt(args, i) == args[i + 1]

Step(flags, consumed, err) == [flags |-> flags, consumed |-> consumed, err |-> err]

\* a help test that knows the long form only: HelpStopsParse must reject it
isHelpFlagLongOnly(arg) == arg = <<"-", "-", "h", "e", "l", "p">>

\* FlagSet.isHelpFlag
isHelpFlag(arg) == arg = <<"-", "-", "h", "e", "l", "p">> \/ arg = <<"-", "h">>

\* FlagSet.isShortFlag
isShortFlag(arg) == Len(arg) = 2 /\ arg[1] = "-" /\ arg[2] # "-"

\* FlagSet.isLongFlag
isLongFlag(arg) == HasPrefix(arg, <<"-", "-">>)

\* the result r of setFlagValue returned by a parse function that consumes
\* `extra` further tokens when it succeeds
Consumed(r, extra) ==
    IF r.err # NoErr THEN Step(r.flags, 0, r.err) ELSE Step(r.flags, extra, NoErr)

\* a short flag that refuses a next token beginning with "-" as its value:
\* ShortFlagTakesNextToken must reject it
ShortFlagFoundNoDashValue(f, args, i, shortKey, name) ==
    IF f.flags[name].flagType = "bool"
    THEN Step([f.flags EXCEPT ![name] =
                  [f.flags[name] EXCEPT !.value = TRUE, !.ptr = TRUE, !.changed = TRUE]],
              0, NoErr)
    ELSE IF i + 1 >= Len(args) \/ HasPrefix(ArgAt(args, i + 1), <<"-">>)
    THEN Step(f.flags, 0, Err("short_requires_value", shortKey))
    ELSE Consumed(setFlagValue(f.flags, f.flags[name].name, ArgAt(args, i + 1)), 1)

\* parseShortFlag once the short key is found to name the flag `name`
ShortFlagFound(f, args, i, shortKey, name) ==
    IF f.flags[name].flagType = "bool"
    THEN Step([f.flags EXCEPT ![name] =
                  [f.flags[name] EXCEPT !.value = TRUE, !.ptr = TRUE, !.changed = TRUE]],
              0, NoErr)
    ELSE IF i + 1 >= Len(args)
    THEN Step(f.flags, 0, Err("short_requires_value", shortKey))
    ELSE Consumed(setFlagValue(f.flags, f.flags[name].name, ArgAt(args, i + 1)), 1)

ShortFlagKey(f, args, i, shortKey) ==
    IF shortKey \notin DOMAIN f.shortMap
    THEN Step(f.flags, 0, Err("unknown_short_flag", shortKey))
    ELSE ShortFlagFound(f, args, i, shortKey, f.shortMap[shortKey])

\* FlagSet.parseShortFlag
parseShortFlag(f, args, i) == ShortFlagKey(f, args, i, <<ArgAt(args, i)[2]>>)

\* a lookahead that refuses every token beginning with "-", not only "--":
\* EqualsIsSpace must reject it
LongFlagTargetNoDashValue(f, args, i, arg, eqPos) ==
    IF eqPos # -1
    THEN [name |-> SliceTo(arg, eqPos), value |-> SliceFrom(arg, eqPos + 1),
          extra |-> 0, err |-> NoErr]
    ELSE IF i + 1 < Len(args) /\ ~HasPrefix(ArgAt(args, i + 1), <<"-">>)
    THEN [name |-> arg, value |-> ArgAt(args, i + 1), extra |-> 1, err |-> NoErr]
    ELSE IF arg \in DOMAIN f.flags /\ f.flags[arg].flagType = "bool"
    THEN [name |-> arg, value |-> <<"t", "r", "u", "e">>, extra |-> 0, err |-> NoErr]
    ELSE [name |-> arg, value |-> <<>>, extra |-> 0, err |-> Err("requires_value", arg)]

\* a lookahead that takes whatever token follows as the value:
\* LongFlagNeverConsumesLongFlag must reject it
LongFlagTargetGreedy(f, args, i, arg, eqPos) ==
    IF eqPos # -1
    THEN [name |-> SliceTo(arg, eqPos), value |-> SliceFrom(arg, eqPos + 1),
          extra |-> 0, err |-> NoErr]
    ELSE IF i + 1 < Len(args)
    THEN [name |-> arg, value |-> ArgAt(args, i + 1), extra |-> 1, err |-> NoErr]
    ELSE IF arg \in DOMAIN f.flags /\ f.flags[arg].flagType = "bool"
    THEN [name |-> arg, value |-> <<"t", "r", "u", "e">>, extra |-> 0, err |-> NoErr]
    ELSE [name |-> arg, value |-> <<>>, extra |-> 0, err |-> Err("requires_value", arg)]

\* the (name, value, extra tokens) parseLongFlag hands to setFlagValue, or the
\* missing-value error; arg is the token without its "--", eqPos the index of '='
LongFlagTarget(f, args, i, arg, eqPos) ==
    IF eqPos # -1
    THEN [name |-> SliceTo(arg, eqPos), value |-> SliceFrom(arg, eqPos + 1),
          extra |-> 0, err |-> NoErr]
    ELSE IF i + 1 < Len(args) /\ ~HasPrefix(ArgAt(args, i + 1), <<"-", "-">>)
    THEN [name |-> arg, value |-> ArgAt(args, i + 1), extra |-> 1, err |-> NoErr]
    ELSE IF arg \in DOMAIN f.flags /\ f.flags[arg].flagType = "bool"
    THEN [name |-> arg, value |-> <<"t", "r", "u", "e">>, extra |-> 0, err |-> NoErr]
    ELSE [name |-> arg, value |-> <<>>, extra |-> 0, err |-> Err("requires_value", arg)]

LongFlagSet(f, t) ==
    IF t.err # NoErr THEN Step(f.flags, 0, t.err)
    ELSE Consumed(setFlagValue(f.flags, t.name, t.value), t.extra)

LongFlagArg(f, args, i, arg) ==
    LongFlagSet(f, LongFlagTarget(f, args, i, arg, IndexByte(arg, "=")))

\* FlagSet.parseLongFlag
parseLongFlag(f, args, i) == LongFlagArg(f, args, i, SliceFrom(ArgAt(args, i), 2))

\* a processArgument that undoes every assignment when its token fails, restoring
\* the defaults the call started from: ErrorKeepsEarlierAssignments must reject it
processArgumentRestoring(f, args, i) ==
    IF ~HasPrefix(ArgAt(args, i), <<"-">>) THEN Step(f.flags, 0, NoErr)
    ELSE IF isHelpFlag(ArgAt(args, i))
    THEN Step([n \in DOMAIN f.flags |-> FlagReset(f.flags[n])], 0, Err("help_requested", NoName))
    ELSE IF isShortFlag(ArgAt(args, i))
    THEN IF parseShortFlag(f, args, i).err # NoErr
         THEN Step([n \in DOMAIN f.flags |-> FlagReset(f.flags[n])], 0,
                   parseShortFlag(f, args, i).err)
         ELSE parseShortFlag(f, args, i)
    ELSE IF isLongFlag(ArgAt(args, i))
    THEN IF parseLongFlag(f, args, i).err # NoErr
         THEN Step([n \in DOMAIN f.flags |-> FlagReset(f.flags[n])], 0,
                   parseLongFlag(f, args, i).err)
         ELSE parseLongFlag(f, args, i)
    ELSE Step(f.flags, 0, NoErr)

\* FlagSet.processArgument
processArgument(f, args, i) ==
    IF ~HasPrefix(ArgAt(args, i), <<"-">>) THEN Step(f.flags, 0, NoErr)
    ELSE IF isHelpFlag(ArgAt(args, i)) THEN Step(f.flags, 0, Err("help_requested", NoName))
    ELSE IF isShortFlag(ArgAt(args, i)) THEN parseShortFlag(f, args, i)
    ELSE IF isLongFlag(ArgAt(args, i)) THEN parseLongFlag(f, args, i)
    ELSE Step(f.flags, 0, NoErr)

\* FlagSet.parseArguments from index i on: the registry and the error it ends with
RECURSIVE parseArgumentsFrom(_, _, _)

LoopStep(f, args, i, r) ==
    IF r.err # NoErr THEN [flags |-> r.flags, err |-> r.err]
    ELSE parseArgumentsFrom([f EXCEPT !.flags = r.flags], args, i + r.consumed + 1)

parseArgumentsFrom(f, args, i) ==
    IF i >= Len(args) THEN [flags |-> f.flags, err |-> NoErr]
    ELSE LoopStep(f, args, i, processArgument(f, args, i))

(***************************************************************************)
(* Constraint validator.  Go iterates a map in an unspecified order, so    *)
(* each check yields the set of errors it can return (empty: it passes).   *)
(***************************************************************************)
\* FlagSet.ValidateRequired
ValidateRequired(flags) ==
    { Err("required_not_provided", name) :
        name \in { n \in DOMAIN flags : flags[n].required /\ ~flags[n].changed } }

\* a dependency check that passes over dependencies that were never registered:
\* DependenciesEnforced must reject it
RECURSIVE FirstDependencyErrorAmongRegistered(_, _, _)
FirstDependencyErrorAmongRegistered(flags, name, deps) ==
    IF deps = <<>> THEN NoErr
    ELSE IF Head(deps) \in DOMAIN flags /\ ~flags[Head(deps)].changed
    THEN DepErr("requires_dependency", name, Head(deps))
    ELSE FirstDependencyErrorAmongRegistered(flags, name, Tail(deps))

\* the first dependency of the list that fails, as the inner loop of ValidateDependencies finds it
RECURSIVE FirstDependencyError(_, _, _)
FirstDependencyError(flags, name, deps) ==
    IF deps = <<>> THEN NoErr
    ELSE IF Head(deps) \notin DOMAIN flags
    THEN DepErr("depends_on_nonexistent", name, Head(deps))
    ELSE IF ~flags[Head(deps)].changed
    THEN DepErr("requires_dependency", name, Head(deps))
    ELSE FirstDependencyError(flags, name, Tail(deps))

\* FlagSet.ValidateDependencies
ValidateDependencies(flags) ==
    { FirstDependencyError(flags, name, flags[name].dependencies) :
        name \in { n \in DOMAIN flags :
                     /\ flags[n].changed
                     /\ Len(flags[n].dependencies) > 0
                     /\ FirstDependencyError(flags, n, flags[n].dependencies) # NoErr } }

\* FlagSet.ValidateAll
ValidateAll(flags) ==
    { Err("validation_failed", name) :
        name \in { n \in DOMAIN flags : flags[n].validator # "none" /\ ~Validate(flags[n]) } }

\* the final checks without the validators: ValidatedOnSuccess must reject it
FirstFailingWithoutValidators(required, dependencies, validators) ==
    IF required # {} THEN required
    ELSE IF dependencies # {} THEN dependencies
    ELSE {NoErr}

\* the three checks in the opposite order: ValidationOnceInOrder must reject it
FirstFailingValidatorsFirst(required, dependencies, validators) ==
    IF validators # {} THEN validators
    ELSE IF dependencies # {} THEN dependencies
    ELSE IF required # {} THEN required
    ELSE {NoErr}

\* FlagSet.ValidateAllConstraints: required flags, then dependencies, then validators
FirstFailing(required, dependencies, validators) ==
    IF required # {} THEN required
    ELSE IF dependencies # {} THEN dependencies
    ELSE IF validators # {} THEN validators
    ELSE {NoErr}

ValidateAllConstraints(flags) ==
    FirstFailing(ValidateRequired(flags), ValidateDependencies(flags), ValidateAll(flags))

(***************************************************************************)
(* Config file loader.  A decoded JSON value is a record with its JSON     *)
(* type jt and one payload field per type; a JSON number is kept in        *)
(* tenths so that a fractional number can be told from a whole one.        *)
(***************************************************************************)
JString(s) == [jt |-> "string", str |-> s, tenths |-> 0, bool |-> FALSE, arr |-> <<>>]

JNumber(t) == [jt |-> "number", str |-> <<>>, tenths |-> t, bool |-> FALSE, arr |-> <<>>]

JBool(b) == [jt |-> "bool", str |-> <<>>, tenths |-> 0, bool |-> b, arr |-> <<>>]

JArray(items) == [jt |-> "array", str |-> <<>>, tenths |-> 0, bool |-> FALSE, arr |-> items]

\* the Go conversion int(v) of a float64: truncation toward zero
TruncToInt(tenths) ==
    IF tenths >= 0 THEN tenths \div 10 ELSE 0 - ((0 - tenths) \div 10)

setStringValueFromConfig(flag, value, name) ==
    IF value.jt = "string" THEN Assigned(flag, value.str)
    ELSE Refused(flag, Err("expected_string", name))

setIntValueFromConfig(flag, value, name) ==
    IF value.jt = "number" THEN Assigned(flag, TruncToInt(value.tenths))
    ELSE Refused(flag, Err("expected_number", name))

setBoolValueFromConfig(flag, value, name) ==
    IF value.jt = "bool" THEN Assigned(flag, value.bool)
    ELSE Refused(flag, Err("expected_boolean", name))

setStringSliceValueFromConfig(flag, value, name) ==
    IF value.jt # "array" THEN Refused(flag, Err("expected_array", name))
    ELSE IF \E k \in 1..Len(value.arr) : value.arr[k].jt # "string"
    THEN Refused(flag, Err("expected_string_array", name))
    ELSE Assigned(flag, [k \in 1..Len(value.arr) |-> value.arr[k].str])

\* FlagSet.setConfigValueByType: the switch has no case for "duration" (nor a float64 flag here)
setConfigValueByType(flag, value, name) ==
    CASE flag.flagType = "string" -> setStringValueFromConfig(flag, value, name)
      [] flag.flagType = "int" -> setIntValueFromConfig(flag, value, name)
      [] flag.flagType = "bool" -> setBoolValueFromConfig(flag, value, name)
      [] flag.flagType = "stringSlice" -> setStringSliceValueFromConfig(flag, value, name)
      [] OTHER -> Refused(flag, Err("unsupported_type", name))

\* FlagSet.validateFlagValue: the validator's own error, unwrapped
validateFlagValue(flag) ==
    IF flag.validator # "none" /\ ~ValidatorAccepts(flag.validator, flag.value)
    THEN Err("validator_error", flag.name)
    ELSE NoErr

\* a config assignment that marks the flag changed, as setFlagValue does:
\* EnvBeatsConfig must reject it
AfterSetConfigByTypeMarkingChanged(flags, name, r) ==
    IF r.err # NoErr THEN Stored(flags, name, r.flag, r.err)
    ELSE Stored(flags, name, [r.flag EXCEPT !.changed = TRUE], validateFlagValue(r.flag))

\* FlagSet.setFlagValueFromConfig: convert and store, validate; changed is not touched
\* what setFlagValueFromConfig does with the result r of setConfigValueByType
AfterSetConfigByType(flags, name, r) ==
    IF r.err # NoErr THEN Stored(flags, name, r.flag, r.err)
    ELSE Stored(flags, name, r.flag, validateFlagValue(r.flag))

setFlagValueFromConfig(flags, name, value) ==
    IF name \notin DOMAIN flags
    THEN [flags |-> flags, err |-> Err("unknown_flag", name)]
    ELSE AfterSetConfigByType(flags, name, setConfigValueByType(flags[name], value, name))

\* the result r of a loader's assignment, its error wrapped as the loader wraps it
Wrapped(src, r) ==
    [flags |-> r.flags, err |-> IF r.err # NoErr THEN Wrap(src, r.err) ELSE NoErr]

\* one iteration of the loop of FlagSet.applyConfig, for the key flagName
applyConfigKey(flags, config, flagName) ==
    IF flagName \notin DOMAIN flags THEN [flags |-> flags, err |-> NoErr]
    ELSE IF flags[flagName].changed THEN [flags |-> flags, err |-> NoErr]
    ELSE Wrapped("config", setFlagValueFromConfig(flags, flagName, config[flagName]))

\* FlagSet.applyConfig over the keys still to visit, in any order (Go map iteration):
\* the set of (registry, error) it can end with
RECURSIVE applyConfigFrom(_, _, _)
applyConfigFrom(flags, config, todo) ==
    IF todo = {} THEN {[flags |-> flags, err |-> NoErr]}
    ELSE UNION { UNION { IF r.err # NoErr THEN {r}
                         ELSE applyConfigFrom(r.flags, config, todo \ {k})
                         : r \in {applyConfigKey(flags, config, k)} }
                 : k \in todo }

applyConfig(flags, config) == applyConfigFrom(flags, config, DOMAIN config)

\* strings.Contains
Contains(s, sub) ==
    \E k \in 0..(Len(s) - Len(sub)) : SubSeq(s, k + 1, k + Len(sub)) = sub

SafePrefixes == { <<"/", "t", "m", "p", "/">>, <<"/", "o", "p", "t", "/">>,
                  <<"/", "e", "t", "c", "/">>,
                  <<"/", "v", "a", "r", "/", "f", "o", "l", "d", "e", "r", "s", "/">>,
                  <<"/", "v", "a", "r", "/", "t", "m", "p", "/">> }

isSafeAbsolutePath(path) == \E prefix \in SafePrefixes : HasPrefix(path, prefix)

\* FlagSet.findConfigFile: the explicit file if it exists; the auto-discovery
\* directories hold no file in this model
findConfigFile(f, files) ==
    IF f.configFile # <<>> /\ f.configFile \in DOMAIN files THEN f.configFile ELSE <<>>

\* FlagSet.loadConfigFromFile
loadConfigFromFile(flags, files, path) ==
    IF Contains(path, <<".", ".">>)
    THEN {[flags |-> flags, err |-> Wrap("config", Err("invalid_config_path", NoName))]}
    ELSE IF HasPrefix(path, <<"/">>) /\ ~isSafeAbsolutePath(path)
    THEN {[flags |-> flags, err |-> Wrap("config", Err("invalid_config_path", NoName))]}
    ELSE IF ~files[path].json
    THEN {[flags |-> flags, err |-> Wrap("config", Err("config_parse_failed", NoName))]}
    ELSE applyConfig(flags, files[path].obj)

\* FlagSet.LoadConfig: the set of (FlagSet, error) it can end with
LoadConfigFrom(g, files, configPath) ==
    IF configPath = <<>> THEN {[fs |-> g, err |-> NoErr]}
    ELSE { [fs |-> [g EXCEPT !.flags = o.flags], err |-> o.err] :
             o \in loadConfigFromFile(g.flags, files, configPath) }

LoadConfigOnce(g, files) ==
    IF g.configFile = <<>> /\ Len(g.configPaths) = 0
    THEN {[fs |-> g, err |-> NoErr]}
    ELSE LoadConfigFrom(g, files, findConfigFile(g, files))

LoadConfig(f, files) ==
    IF f.configLoaded THEN {[fs |-> f, err |-> NoErr]}
    ELSE LoadConfigOnce([f EXCEPT !.configLoaded = TRUE], files)

(***************************************************************************)
(* Environment loader.                                                     *)
(***************************************************************************)
\* os.Getenv
Getenv(environ, name) == IF name \in DOMAIN environ THEN environ[name] ELSE <<>>

\* FlagSet.getEnvVarName
getEnvVarName(f, flagName, flag) ==
    IF flag.envVar # <<>> THEN flag.envVar
    ELSE IF f.envPrefix # <<>> THEN f.envPrefix \o <<"_">> \o EnvNameOf(flagName)
    ELSE EnvNameOf(flagName)

\* one iteration of the loop of FlagSet.LoadEnvironmentVariables, for the flag name
loadEnvValue(f, name, envVarName, envValue) ==
    IF f.flags[name].changed \/ envVarName = <<>> \/ envValue = <<>>
    THEN [flags |-> f.flags, err |-> NoErr]
    ELSE Wrapped("env", setFlagValue(f.flags, name, envValue))

loadEnvVar(f, environ, name, envVarName) ==
    loadEnvValue(f, name, envVarName, Getenv(environ, envVarName))

loadEnvFlag(f, environ, name) ==
    loadEnvVar(f, environ, name, getEnvVarName(f, name, f.flags[name]))

\* the loop over the flags still to visit, in any order (Go map iteration)
RECURSIVE loadEnvFrom(_, _, _)
loadEnvFrom(f, environ, todo) ==
    IF todo = {} THEN {[flags |-> f.flags, err |-> NoErr]}
    ELSE UNION { UNION { IF r.err # NoErr THEN {r}
                         ELSE loadEnvFrom([f EXCEPT !.flags = r.flags], environ, todo \ {n})
                         : r \in {loadEnvFlag(f, environ, n)} }
                 : n \in todo }

\* FlagSet.LoadEnvironmentVariables: the set of (registry, error) it can end with
LoadEnvironmentVariables(f, environ) ==
    IF ~f.enableEnvLookup THEN {[flags |-> f.flags, err |-> NoErr]}
    ELSE loadEnvFrom(f, environ, DOMAIN f.flags)

(***************************************************************************)
(* The program under analysis: what the application registers and          *)
(* configures before it calls Parse, and what it finds around it.          *)
(***************************************************************************)
PortName == <<"p", "o", "r", "t">>
VerboseName == <<"v", "e", "r", "b", "o", "s", "e">>
TimeoutName == <<"t", "i", "m", "e", "o", "u", "t">>
TagsName == <<"t", "a", "g", "s">>

\* the Flag struct as the registration methods build it
NewFlag(name, flagType, shortKey, defaultValue) ==
    [name |-> name, value |-> defaultValue, defaultValue |-> defaultValue,
     ptr |-> defaultValue, flagType |-> flagType, changed |-> FALSE,
     shortKey |-> shortKey, validator |-> "none", required |-> FALSE,
     dependencies |-> <<>>, envVar |-> <<>>]

\* IntVar("port", "p", 8080), BoolVar("verbose", "v", false),
\* Duration("timeout", 30s), StringSlice("tags", {"x"})
RegisteredFlags ==
    (PortName :> NewFlag(PortName, "int", <<"p">>, 8080)) @@
    (VerboseName :> NewFlag(VerboseName, "bool", <<"v">>, FALSE)) @@
    (TimeoutName :> NewFlag(TimeoutName, "duration", <<>>, 30000)) @@
    (TagsName :> NewFlag(TagsName, "stringSlice", <<>>, << <<"x">> >>))

\* the shortMap the *Var registrations leave: short key -> the flag (by its name)
RegisteredShortMap == (<<"p">> :> PortName) @@ (<<"v">> :> VerboseName)

\* SetValidator, SetRequired, SetDependencies as the application may call them
ConstraintPool == {
    [validators |-> (PortName :> "port_range"), required |-> {}, deps |-> <<>>],
    [validators |-> (PortName :> "port_range") @@ (VerboseName :> "must_be_false"),
     required |-> {TagsName}, deps |-> (TimeoutName :> <<PortName>>)] }

WithConstraints(flags, k) ==
    [n \in DOMAIN flags |->
        [flags[n] EXCEPT
            !.validator = IF n \in DOMAIN k.validators THEN k.validators[n] ELSE "none",
            !.required = n \in k.required,
            !.dependencies = IF n \in DOMAIN k.deps THEN k.deps[n] ELSE <<>>]]

ConfigPath == <<"c", ".", "j", "s", "o", "n">>

\* the config files the program may find: none, well-typed values with an unknown
\* key, ill-typed values, a duration string, a value its validator rejects, bad JSON
ConfigPool == {
    [configFile |-> <<>>, files |-> <<>>],
    [configFile |-> ConfigPath, files |-> <<>>],
    [configFile |-> ConfigPath,
     files |-> (ConfigPath :> [json |-> TRUE,
        obj |-> (PortName :> JNumber(90005)) @@
                (TagsName :> JArray(<<JString(<<"a">>), JString(<<"b">>)>>)) @@
                (<<"e", "x", "t", "r", "a">> :> JNumber(10))])],
    [configFile |-> ConfigPath,
     files |-> (ConfigPath :> [json |-> TRUE,
        obj |-> (PortName :> JString(<<"x">>)) @@
                (TagsName :> JArray(<<JString(<<"a">>), JNumber(10)>>))])],
    [configFile |-> ConfigPath,
     files |-> (ConfigPath :> [json |-> TRUE,
        obj |-> (TimeoutName :> JString(<<"6", "0", "s">>))])],
    [configFile |-> ConfigPath,
     files |-> (ConfigPath :> [json |-> TRUE,
        obj |-> (PortName :> JNumber(999990)) @@ (VerboseName :> JBool(TRUE))])],
    [configFile |-> ConfigPath,
     files |-> (ConfigPath :> [json |-> FALSE, obj |-> <<>>])] }

\* the environments the program may run in, with the lookup the application enabled
EnvPool == {
    [enableEnvLookup |-> FALSE, envPrefix |-> <<>>,
     environ |-> (<<"P", "O", "R", "T">> :> <<"7", "0", "0", "0">>)],
    [enableEnvLookup |-> TRUE, envPrefix |-> <<>>,
     environ |-> (<<"P", "O", "R", "T">> :> <<"7", "0", "0", "0">>) @@ (<<"T", "I", "M", "E", "O", "U", "T">> :> <<"2", "m">>) @@
                 (<<"T", "A", "G", "S">> :> <<"e", ",", ",", "f">>) @@ (<<"V", "E", "R", "B", "O", "S", "E">> :> <<>>)],
    [enableEnvLookup |-> TRUE, envPrefix |-> <<>>,
     environ |-> (<<"P", "O", "R", "T">> :> <<"b", "a", "d">>) @@ (<<"V", "E", "R", "B", "O", "S", "E">> :> <<"b", "a", "d">>)],
    [enableEnvLookup |-> TRUE, envPrefix |-> <<"A", "P", "P">>,
     environ |-> (<<"A", "P", "P", "_", "P", "O", "R", "T">> :> <<"7", "0", "0", "0">>) @@ (<<"T", "I", "M", "E", "O", "U", "T">> :> <<"2", "m">>)] }

\* the command-line tokens the argument lists are made of
TokenPool == {
    <<"-", "-", "p", "o", "r", "t", "=", "3", "0", "0", "0">>,
    <<"-", "-", "p", "o", "r", "t", "=", "x">>,
    <<"-", "-", "p", "o", "r", "t">>,
    <<"8", "0">>,
    <<"-", "v">>,
    <<"-", "-", "t", "i", "m", "e", "o", "u", "t", "=", "5", "s">>,
    <<"-", "-", "t", "a", "g", "s", "=", "c", ",", "d">> }

RECURSIVE SeqsUpTo(_, _)
SeqsUpTo(S, n) ==
    IF n = 0 THEN {<<>>}
    ELSE SeqsUpTo(S, n - 1) \cup
         { Append(q, x) : q \in { r \in SeqsUpTo(S, n - 1) : Len(r) = n - 1 }, x \in S }

ArgLists == SeqsUpTo(TokenPool, MaxArgs)

\* New(name) followed by the registrations and settings of one program
NewFlagSet(k, c, e) ==
    [flags |-> WithConstraints(RegisteredFlags, k),
     shortMap |-> RegisteredShortMap,
     configFile |-> c.configFile,
     configPaths |-> <<>>,
     configLoaded |-> FALSE,
     envPrefix |-> e.envPrefix,
     enableEnvLookup |-> e.enableEnvLookup]

(***************************************************************************)
(* The state machine: one Parse call runs as LoadConfig, then              *)
(* LoadEnvironmentVariables, then one processArgument per loop iteration,  *)
(* then ValidateAllConstraints; the caller may then Reset and Parse again. *)
(***************************************************************************)
\* positional is the list Args(), NArg() and Arg(i) expose; no statement of Parse,
\* parseArguments or processArgument writes it
Idle == [pc |-> "idle", args |-> <<>>, i |-> 0, err |-> NoErr, positional |-> <<>>,
         steps |-> [config |-> 0, env |-> 0, tokens |-> 0, validate |-> 0]]

\* a Parse that carries on after an error: FirstErrorAborts must reject it
AfterStepIgnoringError(err, next) == next

\* `if err != nil { return err }` after each step of Parse and of parseArguments:
\* where control goes next
AfterStep(err, next) == IF err # NoErr THEN "done" ELSE next

\* no goroutine has read anything yet
NoReaders ==
    [t \in 1..MaxReaders |-> [pc |-> "ready", op |-> "", name |-> NoName, result |-> NoName]]

Init ==
    /\ \E k \in ConstraintPool, c \in ConfigPool, e \in EnvPool :
          /\ fs = NewFlagSet(k, c, e)
          /\ world = [files |-> c.files, environ |-> e.environ]
    /\ call = Idle
    /\ parses = 0
    /\ readers = NoReaders

\* Parse(args) is called; its first step is LoadConfig
ParseLoadConfig(args) ==
    /\ call.pc = "idle"
    /\ parses < MaxParses
    /\ \E o \in LoadConfig(fs, world.files) :
          /\ fs' = o.fs
          /\ call' = [pc |-> AfterStep(o.err, "env"), args |-> args, i |-> 0,
                      err |-> o.err, positional |-> <<>>,
                      steps |-> [Idle.steps EXCEPT !.config = 1]]
    /\ parses' = parses + 1
    /\ UNCHANGED <<world, readers>>

\* the second step of Parse
ParseLoadEnvironmentVariables ==
    /\ call.pc = "env"
    /\ \E o \in LoadEnvironmentVariables(fs, world.environ) :
          /\ fs' = [fs EXCEPT !.flags = o.flags]
          /\ call' = [call EXCEPT !.pc = AfterStep(o.err, "args"),
                                  !.err = o.err,
                                  !.steps.env = @ + 1]
    /\ UNCHANGED <<world, parses, readers>>

\* one iteration of the loop of parseArguments
ParseProcessArgument ==
    /\ call.pc = "args"
    /\ call.i < Len(call.args)
    /\ \E r \in {processArgument(fs, call.args, call.i)} :
           /\ fs' = [fs EXCEPT !.flags = r.flags]
           /\ call' = [call EXCEPT !.pc = AfterStep(r.err, "args"),
                                   !.err = r.err,
                                   !.i = IF r.err # NoErr THEN @ ELSE @ + r.consumed + 1,
                                   !.steps.tokens = @ + 1]
    /\ UNCHANGED <<world, parses, readers>>

\* the loop is over: Parse returns what ValidateAllConstraints returns
ParseValidateAllConstraints ==
    /\ call.pc = "args"
    /\ call.i >= Len(call.args)
    /\ \E e \in ValidateAllConstraints(fs.flags) :
          call' = [call EXCEPT !.pc = "done", !.err = e, !.steps.validate = @ + 1]
    /\ UNCHANGED <<fs, world, parses, readers>>

\* FlagSet.Reset, called between two Parse calls
Reset ==
    /\ call.pc = "done"
    /\ fs' = [fs EXCEPT !.flags = [n \in DOMAIN fs.flags |-> FlagReset(fs.flags[n])]]
    /\ call' = Idle
    /\ UNCHANGED <<world, parses, readers>>

Next ==
    \/ \E args \in ArgLists : ParseLoadConfig(args)
    \/ ParseLoadEnvironmentVariables
    \/ ParseProcessArgument
    \/ ParseValidateAllConstraints
    \/ Reset

Spec == Init /\ [][Next]_vars

(***************************************************************************)
(* Parse as one function of the FlagSet, the files, the environment and    *)
(* the arguments: the set of (registry, error) it can end with.            *)
(***************************************************************************)
ParseValidate(a) ==
    IF a.err # NoErr THEN {a}
    ELSE { [flags |-> a.flags, err |-> e] : e \in ValidateAllConstraints(a.flags) }

ParseArguments(g, e, args) ==
    IF e.err # NoErr THEN {e}
    ELSE ParseValidate(parseArgumentsFrom([g EXCEPT !.flags = e.flags], args, 0))

ParseEnvironment(c, environ, args) ==
    IF c.err # NoErr THEN {[flags |-> c.fs.flags, err |-> c.err]}
    ELSE UNION { ParseArguments(c.fs, e, args) :
                   e \in LoadEnvironmentVariables(c.fs, environ) }

\* FlagSet.Parse
Parse(f, files, environ, args) ==
    UNION { ParseEnvironment(c, environ, args) : c \in LoadConfig(f, files) }

\* the FlagSet as the registrations and settings left it, before any Parse
Fresh(f) ==
    [f EXCEPT !.flags = [n \in DOMAIN f.flags |-> FlagReset(f.flags[n])],
              !.configLoaded = FALSE]

(***************************************************************************)
(* What each source supplies, read off the program's surroundings.         *)
(***************************************************************************)
FlagNames == DOMAIN fs.flags

ParseReturned == call.pc = "done"

ParseSucceeded == call.pc = "done" /\ call.err = NoErr

\* the config file is found and decodes, and holds the key name
ConfigSupplies(name) ==
    /\ fs.configFile # <<>>
    /\ fs.configFile \in DOMAIN world.files
    /\ world.files[fs.configFile].json
    /\ name \in DOMAIN world.files[fs.configFile].obj

ConfigValue(name) == world.files[fs.configFile].obj[name]

\* the environment lookup is enabled and the flag's variable is set and non-empty
EnvSupplies(name) ==
    /\ fs.enableEnvLookup
    /\ Getenv(world.environ, getEnvVarName(fs, name, fs.flags[name])) # <<>>

EnvRaw(name) == Getenv(world.environ, getEnvVarName(fs, name, fs.flags[name]))

\* the (flag name, raw value) pairs the argument list supplies, in order, read
\* token by token from position k (1-based) by the command-line grammar
RECURSIVE CliSupplied(_, _)
CliSupplied(args, k) ==
    IF k > Len(args) THEN <<>>
    ELSE LET a == args[k]
             body == SliceFrom(a, 2)
             eq == IndexByte(body, "=")
             hasNext == k < Len(args)
         IN  IF ~HasPrefix(a, <<"-">>) \/ isHelpFlag(a) THEN CliSupplied(args, k + 1)
             ELSE IF isShortFlag(a)
             THEN IF <<a[2]>> \notin DOMAIN fs.shortMap THEN CliSupplied(args, k + 1)
                  ELSE IF fs.flags[fs.shortMap[<<a[2]>>]].flagType = "bool"
                  THEN <<[name |-> fs.shortMap[<<a[2]>>], raw |-> <<"t", "r", "u", "e">>]>>
                       \o CliSupplied(args, k + 1)
                  ELSE IF hasNext
                  THEN <<[name |-> fs.shortMap[<<a[2]>>], raw |-> args[k + 1]]>>
                       \o CliSupplied(args, k + 2)
                  ELSE <<>>
             ELSE IF ~isLongFlag(a) THEN CliSupplied(args, k + 1)
             ELSE IF eq # -1
             THEN <<[name |-> SliceTo(body, eq), raw |-> SliceFrom(body, eq + 1)]>>
                  \o CliSupplied(args, k + 1)
             ELSE IF hasNext /\ ~HasPrefix(args[k + 1], <<"-", "-">>)
             THEN <<[name |-> body, raw |-> args[k + 1]]>> \o CliSupplied(args, k + 2)
             ELSE IF body \in DOMAIN fs.flags /\ fs.flags[body].flagType = "bool"
             THEN <<[name |-> body, raw |-> <<"t", "r", "u", "e">>]>>
                  \o CliSupplied(args, k + 1)
             ELSE <<>>

CliMentions(name) ==
    \E k \in 1..Len(CliSupplied(call.args, 1)) : CliSupplied(call.args, 1)[k].name = name

\* the raw value of the last mention of the flag on the command line
CliRaw(name) ==
    LET s == CliSupplied(call.args, 1)
        last == CHOOSE k \in 1..Len(s) :
                    s[k].name = name /\ \A j \in (k + 1)..Len(s) : s[j].name # name
    IN  s[last].raw

\* the typed value a raw string stands for, by the flag's kind
Typed(flagType, raw) ==
    CASE flagType = "string" -> raw
      [] flagType = "int" -> Atoi(raw).n
      [] flagType = "bool" -> ParseBool(raw).b
      [] flagType = "duration" -> ParseDuration(raw).d
      [] flagType = "stringSlice" -> parseStringSlice(raw)

\* Flag.Value() and the variable behind the handle returned at registration
Holds(name, v) == fs.flags[name].value = v /\ fs.flags[name].ptr = v

\* FlagSet.Changed
Changed(name) == IF name \in DOMAIN fs.flags THEN fs.flags[name].changed ELSE FALSE

(***************************************************************************)
(* C1.  Priority of the command line: when Parse succeeds, every flag the  *)
(* command line supplies a value for holds that value (the last one the    *)
(* command line gives it), whatever the config file and the environment    *)
(* also supplied for it.                                                   *)
(***************************************************************************)
CliValueWins ==
    ParseSucceeded =>
        \A n \in FlagNames :
            CliMentions(n) => Holds(n, Typed(fs.flags[n].flagType, CliRaw(n)))

\* a successful Parse where all three sources supplied the same flag
CliValueWinsWitness ==
    /\ ParseSucceeded
    /\ \E n \in FlagNames :
          /\ CliMentions(n) /\ EnvSupplies(n) /\ ConfigSupplies(n) /\ parses = 1
          /\ Typed(fs.flags[n].flagType, CliRaw(n)) # Typed(fs.flags[n].flagType, EnvRaw(n))
          /\ Holds(n, Typed(fs.flags[n].flagType, CliRaw(n)))

(***************************************************************************)
(* C2.  Environment over config: when Parse succeeds and both the config   *)
(* file and an enabled environment variable supply a flag that the command *)
(* line does not mention, the flag holds the environment value.            *)
(***************************************************************************)
EnvBeatsConfig ==
    ParseSucceeded =>
        \A n \in FlagNames :
            (ConfigSupplies(n) /\ EnvSupplies(n) /\ ~CliMentions(n))
                => Holds(n, Typed(fs.flags[n].flagType, EnvRaw(n)))

\* a successful first Parse (the config file was applied) where config and
\* environment supplied different values for a flag the command line omits
EnvBeatsConfigWitness ==
    /\ ParseSucceeded
    /\ parses = 1
    /\ ConfigSupplies(PortName) /\ EnvSupplies(PortName) /\ ~CliMentions(PortName)
    /\ ConfigValue(PortName).jt = "number"
    /\ TruncToInt(ConfigValue(PortName).tenths) # Atoi(EnvRaw(PortName)).n
    /\ Holds(PortName, Atoi(EnvRaw(PortName)).n)

(***************************************************************************)
(* C3.  Changed after any source: after a successful Parse, Changed(name)  *)
(* is true for every flag that the config file, the environment or the     *)
(* command line assigned a value.  (Stated for the first Parse of the      *)
(* FlagSet, the one that applies the config file.)                         *)
(***************************************************************************)
ChangedAfterAnySource ==
    (ParseSucceeded /\ parses = 1) =>
        \A n \in FlagNames :
            (ConfigSupplies(n) \/ EnvSupplies(n) \/ CliMentions(n)) => Changed(n)

(***************************************************************************)
(* C4.  Required by any source: Parse reports "required flag --name not    *)
(* provided" only when neither the command line, nor the environment, nor  *)
(* the config file assigned the flag a value.                              *)
(***************************************************************************)
RequiredMetByAnySource ==
    (ParseReturned /\ parses = 1 /\ call.err.kind = "required_not_provided") =>
        /\ ~CliMentions(call.err.flag)
        /\ ~EnvSupplies(call.err.flag)
        /\ ~ConfigSupplies(call.err.flag)

(***************************************************************************)
(* C5.  Duration from config: once the first Parse has loaded a config     *)
(* file whose only key gives a Duration flag a well-formed duration        *)
(* string, there is no error and the flag holds the parsed duration.       *)
(***************************************************************************)
ConfigDurationString(name) ==
    /\ ConfigSupplies(name)
    /\ DOMAIN world.files[fs.configFile].obj = {name}
    /\ fs.flags[name].flagType = "duration"
    /\ ConfigValue(name).jt = "string"
    /\ ParseDuration(ConfigValue(name).str).ok

ConfigDurationParsed ==
    \A n \in FlagNames :
        (/\ parses = 1 /\ call.steps.config = 1 /\ call.steps.env = 0
         /\ ConfigDurationString(n))
            => /\ call.err = NoErr
               /\ Holds(n, ParseDuration(ConfigValue(n).str).d)

(***************************************************************************)
(* C6.  Reset then Parse is a fresh Parse: a Parse that follows Parse and  *)
(* Reset ends with a result and a registry (values and changed marks) that *)
(* Parse of the same arguments can end with on a freshly built FlagSet.    *)
(***************************************************************************)
ResetThenParseIsFreshParse ==
    (ParseReturned /\ parses >= 2) =>
        [flags |-> fs.flags, err |-> call.err]
            \in Parse(Fresh(fs), world.files, world.environ, call.args)

(***************************************************************************)
(* C7.  Reset restores the defaults: after Reset, whatever Parse calls     *)
(* came before and however they ended, every flag's value and the variable *)
(* behind its handle equal the registration default, and changed is false. *)
(***************************************************************************)
ResetRestoresDefaults ==
    (call.pc = "idle" /\ parses >= 1) =>
        \A n \in FlagNames :
            /\ Holds(n, fs.flags[n].defaultValue)
            /\ ~Changed(n)

\* Reset has run after two Parse calls, the earlier of which had moved a flag
ResetRestoresDefaultsWitness ==
    /\ call.pc = "idle"
    /\ parses >= 2
    /\ \A n \in FlagNames : Holds(n, fs.flags[n].defaultValue) /\ ~Changed(n)

(***************************************************************************)
(* C8.  A failed conversion writes nothing: when a step of Parse ends with *)
(* a type-conversion error for a flag, whichever source the raw value came *)
(* from, the step leaves that flag (value, handle, changed) as it found it.*)
(***************************************************************************)
ConversionKinds ==
    {"invalid_int", "invalid_bool", "invalid_duration",
     "expected_string", "expected_number", "expected_boolean",
     "expected_array", "expected_string_array"}

FailedConversionWritesNothing ==
    [][ (/\ call.pc # "done" /\ call'.pc = "done"
         /\ call'.err.kind \in ConversionKinds
         /\ call'.err.flag \in DOMAIN fs.flags)
            => fs'.flags[call'.err.flag] = fs.flags[call'.err.flag] ]_vars

\* a command-line value failed to convert for a flag the environment had set
FailedConversionWitness ==
    /\ ParseReturned
    /\ call.err.kind = "invalid_int" /\ call.err.wrap = "none"
    /\ call.err.flag = PortName
    /\ EnvSupplies(PortName)
    /\ Changed(PortName)
    /\ Holds(PortName, Atoi(EnvRaw(PortName)).n)
    /\ Holds(PortName, 7000)

(***************************************************************************)
(* C9.  The first error aborts: when a step of Parse fails, Parse has      *)
(* returned that error, and nothing after the failing step has run: no     *)
(* environment load or token after a config error, no token after an       *)
(* environment error, no later token and no validation after a token error.*)
(***************************************************************************)
FirstErrorAborts ==
    call.err # NoErr =>
        /\ call.pc = "done"
        /\ call.err.wrap = "config"
              => call.steps = [config |-> 1, env |-> 0, tokens |-> 0, validate |-> 0]
        /\ call.err.wrap = "env"
              => call.steps = [config |-> 1, env |-> 1, tokens |-> 0, validate |-> 0]
        /\ (call.err.wrap = "none" /\ call.steps.validate = 0)
              => /\ call.steps.tokens >= 1
                 /\ call.i < Len(call.args)
                 /\ call.steps.tokens <= call.i + 1
        /\ call.steps.validate <= 1

\* the config load failed while the environment and the command line both had
\* a value for a flag: neither was applied
FirstErrorAbortsWitness ==
    /\ ParseReturned
    /\ parses = 1
    /\ call.err.wrap = "config"
    /\ EnvSupplies(PortName)
    /\ CliMentions(PortName)
    /\ Holds(PortName, fs.flags[PortName].defaultValue)
    /\ ~Changed(PortName)

(***************************************************************************)
(* C10.  Final validation, once and in order: ValidateAllConstraints runs  *)
(* once per Parse, after config, environment and every token; a missing    *)
(* required flag is reported before any unmet dependency, an unmet         *)
(* dependency before any failing validator, and no failure means success.  *)
(***************************************************************************)
MissingRequired == { n \in FlagNames : fs.flags[n].required /\ ~Changed(n) }

UnmetDependency ==
    { n \in FlagNames :
        /\ Changed(n)
        /\ \E k \in 1..Len(fs.flags[n].dependencies) :
              ~Changed(fs.flags[n].dependencies[k]) }

FailingValidator ==
    { n \in FlagNames : ~ValidatorAccepts(fs.flags[n].validator, fs.flags[n].value) }

DebugName == <<"d", "e", "b", "u", "g">>

\* IntVar("port", "p", 8080), BoolVar("verbose", "v", false), BoolVar("debug", "d", false),
\* Duration("timeout", 30s), StringSlice("tags", {"x"})
SyntaxFlags ==
    RegisteredFlags @@ (DebugName :> NewFlag(DebugName, "bool", <<"d">>, FALSE))

SyntaxShortMap == RegisteredShortMap @@ (<<"d">> :> DebugName)

NoConfigFile == [configFile |-> <<>>, files |-> <<>>]

EnvLookupOff == [enableEnvLookup |-> FALSE, envPrefix |-> <<>>, environ |-> <<>>]

NewSyntaxFlagSet(k) ==
    [NewFlagSet(k, NoConfigFile, EnvLookupOff)
        EXCEPT !.flags = WithConstraints(SyntaxFlags, k), !.shortMap = SyntaxShortMap]

\* help tokens, Bool literals in each form, a short flag, a valueless long flag,
\* a value, an unknown long flag, the separator, combined short clusters, a
\* non-Bool short flag and the form -x=value
SyntaxTokens == {
    <<"-", "-", "h", "e", "l", "p">>,
    <<"-", "h">>,
    <<"-", "-", "d", "e", "b", "u", "g">>,
    <<"-", "-", "d", "e", "b", "u", "g", "=", "t", "r", "u", "e">>,
    <<"t", "r", "u", "e">>,
    <<"-", "-", "d", "e", "b", "u", "g", "=", "f", "a", "l", "s", "e">>,
    <<"f", "a", "l", "s", "e">>,
    <<"-", "-", "d", "e", "b", "u", "g", "=", "n", "o", "t", "a", "b", "o", "o", "l">>,
    <<"-", "v">>,
    <<"-", "-", "p", "o", "r", "t">>,
    <<"3", "0", "0", "0">>,
    <<"-", "-", "n", "o", "p", "e">>,
    <<"-", "-">>,
    <<"-", "v", "d">>,
    <<"-", "v", "p">>,
    <<"-", "p", "v">>,
    <<"-", "v", "x">>,
    <<"-", "p">>,
    <<"-", "p", "=", "3", "0", "0", "0">> }

SyntaxArgLists == SeqsUpTo(SyntaxTokens, MaxArgs)

\* SetDependencies naming a registered flag and then a flag that was never registered
GhostDependencies ==
    [validators |-> (PortName :> "port_range"), required |-> {},
     deps |-> (VerboseName :> <<DebugName, <<"g", "h", "o", "s", "t">> >>)]

SyntaxInit ==
    /\ \E k \in ConstraintPool \cup {GhostDependencies} : fs = NewSyntaxFlagSet(k)
    /\ world = [files |-> NoConfigFile.files, environ |-> EnvLookupOff.environ]
    /\ call = Idle
    /\ parses = 0
    /\ readers = NoReaders

\* one Parse call; Reset and a second Parse are left to the main specification
SyntaxNext ==
    \/ \E args \in SyntaxArgLists : ParseLoadConfig(args)
    \/ ParseLoadEnvironmentVariables
    \/ ParseProcessArgument
    \/ ParseValidateAllConstraints

SyntaxSpec == SyntaxInit /\ [][SyntaxNext]_vars

(***************************************************************************)
(* Token shapes of the command-line grammar, used to state its properties. *)
(***************************************************************************)
\* the long form --name
Long(name) == <<"-", "-">> \o name

\* the long form --name=value
LongEquals(name, value) == Long(name) \o <<"=">> \o value

HelpTokens == {Long(<<"h", "e", "l", "p">>), <<"-", "h">>}

\* the token processArgument is about to be called on
AtToken == call.pc = "args" /\ call.i < Len(call.args)

Token == ArgAt(call.args, call.i)

HasNextToken == call.i + 1 < Len(call.args)

NextToken == ArgAt(call.args, call.i + 1)

BoolLiterals ==
    ParseReturned =>
        /\ call.args \in {<<Long(DebugName)>>, <<LongEquals(DebugName, <<"t", "r", "u", "e">>)>>,
                          <<Long(DebugName), <<"t", "r", "u", "e">>>>}
              => /\ Holds(DebugName, TRUE) /\ Changed(DebugName)
                 /\ call.err.kind \in {"none", "required_not_provided"}
                 /\ (\A n \in FlagNames : ~fs.flags[n].required) => call.err = NoErr
        /\ call.args \in {<<LongEquals(DebugName, <<"f", "a", "l", "s", "e">>)>>,
                          <<Long(DebugName), <<"f", "a", "l", "s", "e">>>>}
              => /\ Holds(DebugName, FALSE) /\ Changed(DebugName)
                 /\ call.err.kind \in {"none", "required_not_provided"}
                 /\ (\A n \in FlagNames : ~fs.flags[n].required) => call.err = NoErr
        /\ call.args = <<LongEquals(DebugName, <<"n", "o", "t", "a", "b", "o", "o", "l">>)>>
              => /\ call.err = Err("invalid_bool", DebugName)
                 /\ Holds(DebugName, FALSE) /\ ~Changed(DebugName)

\* Parse of [--debug, false] succeeded and left the flag false and changed
BoolLiteralsWitness ==
    /\ ParseSucceeded
    /\ call.args = <<Long(DebugName), <<"f", "a", "l", "s", "e">>>>
    /\ Holds(DebugName, FALSE) /\ Changed(DebugName)

(***************************************************************************)
(* C13.  A valueless Bool long flag followed by a short-flag token         *)
(* ([--debug, -v]) is set to true and does not take the short token as its *)
(* value; the short token is parsed as its own flag and Parse succeeds     *)
(* (when no constraint fails).                                             *)
(***************************************************************************)
BoolLongFlagLeavesShortFlag ==
    (ParseReturned /\ call.args = <<Long(DebugName), <<"-", "v">> >>)
        => /\ Holds(DebugName, TRUE)
           /\ Holds(VerboseName, TRUE)
           /\ call.err.kind \notin {"invalid_bool"}
           /\ (\A n \in FlagNames : ~fs.flags[n].required) => call.err = NoErr

(***************************************************************************)
(* C14.  Equals is space: for every non-Bool flag and every value that     *)
(* does not begin with "--", Parse of [--name=v] and Parse of [--name, v]  *)
(* on the same fresh FlagSet can end with exactly the same results and     *)
(* registries; and a Parse of [--name, v] the program ran ended with one   *)
(* of those.                                                               *)
(***************************************************************************)
NonBoolNames == { n \in FlagNames : fs.flags[n].flagType # "bool" }

ValueTokens == { t \in SyntaxTokens \cup TokenPool \cup {<<>>} : ~HasPrefix(t, <<"-", "-">>) }

EqualsIsSpace ==
    /\ call.pc = "idle" =>
          \A n \in NonBoolNames, v \in ValueTokens :
             Parse(Fresh(fs), world.files, world.environ, <<Long(n), v>>)
                 = Parse(Fresh(fs), world.files, world.environ, <<LongEquals(n, v)>>)
    /\ \A n \in NonBoolNames :
          (/\ ParseReturned /\ Len(call.args) = 2 /\ call.args[1] = Long(n)
           /\ ~HasPrefix(call.args[2], <<"-", "-">>))
              => [flags |-> fs.flags, err |-> call.err]
                    \in Parse(Fresh(fs), world.files, world.environ,
                              <<LongEquals(n, call.args[2])>>)

\* [--port, 3000] was parsed and left port = 3000, as [--port=3000] does
EqualsIsSpaceWitness ==
    /\ ParseReturned
    /\ call.args = <<Long(PortName), <<"3", "0", "0", "0">> >>
    /\ Holds(PortName, 3000) /\ Changed(PortName)
    /\ \E o \in Parse(Fresh(fs), world.files, world.environ,
                      <<LongEquals(PortName, <<"3", "0", "0", "0">>)>>) :
          o.flags[PortName].value = 3000

(***************************************************************************)
(* C15.  A long flag never takes a long flag as its value: when a          *)
(* registered long flag written without "=" is followed by a token that    *)
(* begins with "--", the following token is not consumed; a Bool flag is   *)
(* set to true and the loop moves on by one token, a flag of any other     *)
(* kind makes Parse fail with the missing-value error and touches nothing. *)
(***************************************************************************)
LongFlagNeverConsumesLongFlag ==
    [][ \A n \in FlagNames :
          (/\ AtToken /\ Token = Long(n)
           /\ HasNextToken /\ HasPrefix(NextToken, <<"-", "-">>))
              => IF fs.flags[n].flagType = "bool"
                 THEN /\ fs'.flags[n].value = TRUE /\ fs'.flags[n].ptr = TRUE
                      /\ fs'.flags[n].changed
                      /\ call'.err.kind \in {"none", "validation_failed"}
                      /\ call'.err = NoErr => (call'.pc = "args" /\ call'.i = call.i + 1)
                 ELSE /\ call'.err = Err("requires_value", n)
                      /\ call'.pc = "done"
                      /\ fs' = fs ]_vars

\* [--debug, --port]: debug became true, and --port was then parsed as a flag
\* of its own (it has no value, hence the missing-value error)
LongFlagNeverConsumesLongFlagWitness ==
    /\ ParseReturned
    /\ call.args = <<Long(DebugName), Long(PortName)>>
    /\ Holds(DebugName, TRUE) /\ Changed(DebugName)
    /\ call.err = Err("requires_value", PortName)
    /\ call.steps.tokens = 2

(***************************************************************************)
(* C16.  Unknown long flag: when processArgument reaches a long-form token *)
(* (other than --help and the bare --) whose name is not registered, Parse *)
(* fails with the unknown-flag error and touches no flag.                  *)
(***************************************************************************)
\* the flag name a long-form token carries: what follows "--", up to the first "="
LongName(tok) ==
    IF IndexByte(SliceFrom(tok, 2), "=") = -1 THEN SliceFrom(tok, 2)
    ELSE SliceTo(SliceFrom(tok, 2), IndexByte(SliceFrom(tok, 2), "="))

UnknownLongFlagFails ==
    [][ (/\ AtToken /\ HasPrefix(Token, <<"-", "-">>)
         /\ Token \notin HelpTokens /\ Token # <<"-", "-">>
         /\ LongName(Token) \notin FlagNames)
            => /\ call'.pc = "done"
               /\ call'.err = Err("unknown_flag", LongName(Token))
               /\ fs' = fs ]_vars

(***************************************************************************)
(* C17.  The separator: a literal -- token is not an error, and no token   *)
(* after it modifies a flag or causes an error.  Stated for argument lists *)
(* that begin with --: Parse ends with every flag at its default and       *)
(* unchanged, and with no error from the command line.                     *)
(***************************************************************************)
SeparatorEndsFlags ==
    (ParseReturned /\ Len(call.args) >= 1 /\ call.args[1] = <<"-", "-">>)
        => /\ \A n \in FlagNames : Holds(n, fs.flags[n].defaultValue) /\ ~Changed(n)
           /\ call.steps.validate = 1

(***************************************************************************)
(* C18.  Positional arguments: after a Parse whose tokens were all         *)
(* accepted, the list Args() exposes holds, in order, every token that was *)
(* neither a flag nor consumed as a flag's value.                          *)
(***************************************************************************)
\* FlagSet.Args
Args == call.positional

\* the tokens parseArguments visits from index i on that do not begin with "-":
\* the ones that are neither flags nor the value an earlier flag consumed
RECURSIVE VisitedNonFlags(_, _, _)
VisitedNonFlags(f, args, i) ==
    IF i >= Len(args) THEN <<>>
    ELSE LET r == processArgument(f, args, i)
         IN  IF r.err # NoErr THEN <<>>
             ELSE (IF HasPrefix(ArgAt(args, i), <<"-">>) THEN <<>> ELSE <<ArgAt(args, i)>>)
                  \o VisitedNonFlags([f EXCEPT !.flags = r.flags], args, i + r.consumed + 1)

PositionalCollected ==
    (ParseReturned /\ call.steps.validate = 1)
        => Args = VisitedNonFlags(Fresh(fs), call.args, 0)

(***************************************************************************)
(* C19.  Combined short flags: a cluster -abc whose characters before the  *)
(* last are short keys of Bool flags sets each of those flags to true; a   *)
(* Bool last character is set to true as well, a non-Bool last character   *)
(* takes the next whole token as its value.                                *)
(***************************************************************************)
\* a single dash followed by two or more characters, none of them "-" or "="
IsCluster(tok) ==
    /\ Len(tok) >= 3 /\ tok[1] = "-"
    /\ \A j \in 2..Len(tok) : tok[j] \notin {"-", "="}

\* the flag a character of a cluster names
KeyFlag(c) == fs.shortMap[<<c>>]

IsBoolKey(c) == <<c>> \in DOMAIN fs.shortMap /\ fs.flags[KeyFlag(c)].flagType = "bool"

IsValueKey(c) == <<c>> \in DOMAIN fs.shortMap /\ fs.flags[KeyFlag(c)].flagType # "bool"

CombinedShortFlags ==
    [][ (/\ AtToken /\ IsCluster(Token)
         /\ \A j \in 2..(Len(Token) - 1) : IsBoolKey(Token[j])
         /\ <<Token[Len(Token)]>> \in DOMAIN fs.shortMap)
            => /\ \A j \in 2..(Len(Token) - 1) :
                    /\ fs'.flags[KeyFlag(Token[j])].value = TRUE
                    /\ fs'.flags[KeyFlag(Token[j])].changed
               /\ IsBoolKey(Token[Len(Token)])
                    => /\ fs'.flags[KeyFlag(Token[Len(Token)])].value = TRUE
                       /\ fs'.flags[KeyFlag(Token[Len(Token)])].changed
               /\ (/\ IsValueKey(Token[Len(Token)]) /\ HasNextToken
                   /\ setFlagValue(fs.flags, KeyFlag(Token[Len(Token)]), NextToken).err = NoErr)
                    => /\ fs'.flags[KeyFlag(Token[Len(Token)])].value
                            = Typed(fs.flags[KeyFlag(Token[Len(Token)])].flagType, NextToken)
                       /\ call'.i = call.i + 2 ]_vars

(***************************************************************************)
(* C20.  Malformed clusters fail: a cluster with a non-Bool flag before    *)
(* its last position makes Parse fail with the "must be last in combined   *)
(* sequence" error, one with a character that is no registered short key   *)
(* with the "unknown flag in combined sequence" error; whichever offending *)
(* character comes first decides, and Parse never accepts the cluster.     *)
(***************************************************************************)
\* the position of the first character of the cluster that cannot stand there
\* (0 when every character can)
FirstOffence(tok) ==
    LET bad == { j \in 2..Len(tok) :
                   \/ <<tok[j]>> \notin DOMAIN fs.shortMap
                   \/ (j < Len(tok) /\ IsValueKey(tok[j])) }
    IN  IF bad = {} THEN 0 ELSE CHOOSE j \in bad : \A k \in bad : j <= k

MalformedClusterFails ==
    [][ (AtToken /\ IsCluster(Token) /\ FirstOffence(Token) # 0)
            => /\ call'.pc = "done"
               /\ IF <<Token[FirstOffence(Token)]>> \notin DOMAIN fs.shortMap
                  THEN call'.err.kind = "unknown_flag_in_combined_sequence"
                  ELSE call'.err.kind = "must_be_last_in_combined_sequence" ]_vars

(***************************************************************************)
(* Short flags.                                                            *)
(***************************************************************************)
\* C21: a token -x=value, x the short key of a registered non-Bool flag, assigns
\* value to that flag exactly as the two tokens -x value do (setFlagValue on the
\* flag's name) and, when the assignment succeeds, consumes that one token only.
ShortFlagEquals ==
    [][ (/\ AtToken
         /\ Len(Token) >= 3 /\ Token[1] = "-" /\ Token[3] = "="
         /\ IsValueKey(Token[2]))
        => LET r == setFlagValue(fs.flags, KeyFlag(Token[2]), SubSeq(Token, 4, Len(Token)))
           IN  /\ fs'.flags = r.flags
               /\ call'.err = r.err
               /\ r.err = NoErr => (call'.pc = "args" /\ call'.i = call.i + 1) ]_vars

ReadResult(f, op, name) ==
    CASE op = "Lookup" -> IF name \in DOMAIN f.flags THEN f.flags[name] ELSE NoName
      [] op = "Value" -> IF name \in DOMAIN f.flags THEN f.flags[name].value ELSE NoName
      [] op = "Changed" -> IF name \in DOMAIN f.flags THEN f.flags[name].changed ELSE FALSE
      [] op = "GetInt" ->
            IF name \in DOMAIN f.flags /\ f.flags[name].flagType = "int"
            THEN f.flags[name].value ELSE 0
      [] op = "GetBool" ->
            IF name \in DOMAIN f.flags /\ f.flags[name].flagType = "bool"
            THEN f.flags[name].value ELSE FALSE
      [] op = "VisitAll" -> [n \in DOMAIN f.flags |-> f.flags[n]]

\* a getter that notes in the FlagSet that it was read: ConcurrentReads must reject it
AfterReadNotingAccess(f, op, name) ==
    IF name \in DOMAIN f.flags THEN [f EXCEPT !.flags[name].envVar = <<"r">>] ELSE f

\* the FlagSet a read operation leaves: no statement of Lookup, Value, Changed,
\* the typed getters or VisitAll assigns to the FlagSet or to a Flag
AfterRead(f, op, name) == f

\* goroutine t calls a read operation
ReadCall(t) ==
    /\ call.pc = "done"
    /\ readers[t].pc = "ready"
    /\ \E c \in {<<"Lookup", PortName>>, <<"Lookup", <<"n", "o", "p", "e">>>>,
                  <<"Value", PortName>>, <<"Changed", PortName>>,
                  <<"GetInt", PortName>>, <<"GetInt", VerboseName>>,
                  <<"GetBool", VerboseName>>, <<"VisitAll", NoName>>} :
          readers' = [readers EXCEPT ![t] = [pc |-> "reading", op |-> c[1], name |-> c[2],
                                             result |-> NoName]]
    /\ UNCHANGED <<fs, world, call, parses>>

\* the read operation of goroutine t returns
ReadReturn(t) ==
    /\ readers[t].pc = "reading"
    /\ fs' = AfterRead(fs, readers[t].op, readers[t].name)
    /\ readers' = [readers EXCEPT ![t] =
                      [@ EXCEPT !.pc = "ready",
                                !.result = ReadResult(fs, readers[t].op, readers[t].name)]]
    /\ UNCHANGED <<world, call, parses>>

\* one Parse from a single goroutine (doc.go: "Parse() should be called only
\* once from a single goroutine"), then the readers
ReadNext ==
    \/ \E args \in {<<>>, <<<<"-", "v">>>>, <<<<"-", "p">>, <<"3", "0", "0", "0">>>>} :
          ParseLoadConfig(args)
    \/ ParseLoadEnvironmentVariables
    \/ ParseProcessArgument
    \/ ParseValidateAllConstraints
    \/ \E t \in 1..MaxReaders : ReadCall(t)
    \/ \E t \in 1..MaxReaders : ReadReturn(t)

ReadSpec == SyntaxInit /\ [][ReadNext]_vars

\* C23: after Parse has returned, any number of goroutines may call the read
\* operations concurrently, without synchronization: no step of a read writes the
\* FlagSet or the Parse activation, whatever other reads are in flight, and every
\* read returns what the FlagSet holds (the value and changed state Parse left).
ConcurrentReads ==
    [][ \A t \in 1..MaxReaders :
          readers'[t] # readers[t] =>
             /\ call.pc = "done"
             /\ fs' = fs /\ call' = call
             /\ readers[t].pc = "reading" =>
                   LET r == readers'[t].result
                       n == readers[t].name
                       op == readers[t].op
                   IN  /\ op = "VisitAll" =>
                              \A v \in FlagNames : r[v].name = v /\ Holds(v, r[v].value)
                       /\ (op = "Lookup" /\ n \notin FlagNames) => r = NoName
                       /\ (op = "Lookup" /\ n \in FlagNames) => r.name = n /\ Holds(n, r.value)
                       /\ op = "Value" => Holds(n, r)
                       /\ op = "Changed" => r = Changed(n)
                       /\ (op = "GetInt" /\ n = PortName) => Holds(n, r)
                       /\ (op = "GetInt" /\ n = VerboseName) => r = 0
                       /\ op = "GetBool" => Holds(n, r) ]_vars

\* two reads overlap: one goroutine is inside GetInt("port") while the other has
\* just returned from Changed("port") with true, after Parse(["-p", "3000"])
ConcurrentReadsWitness ==
    /\ ParseSucceeded
    /\ readers[1].pc = "reading" /\ readers[1].op = "GetInt" /\ readers[1].name = PortName
    /\ readers[2].pc = "ready" /\ readers[2].op = "Changed" /\ readers[2].name = PortName
    /\ readers[2].result = TRUE
    /\ Holds(PortName, 3000)

\* C24: when Parse succeeds, every flag that has a validator holds a final value
\* its validator accepts, whichever source the value came from (default, config
\* file, environment or command line).
ValidatedOnSuccess ==
    ParseSucceeded =>
        \A n \in FlagNames :
            /\ ValidatorAccepts(fs.flags[n].validator, fs.flags[n].value)
            /\ ValidatorAccepts(fs.flags[n].validator, fs.flags[n].ptr)

\* Parse succeeded with the port, which has a validator, taken from the environment
ValidatedOnSuccessWitness ==
    /\ ParseSucceeded
    /\ fs.flags[PortName].validator = "port_range"
    /\ EnvSupplies(PortName) /\ ~CliMentions(PortName)
    /\ Holds(PortName, 7000)

\* C25: every assignment to a flag that has a validator, from any source and in
\* any syntax, runs the validator at once: a step of Parse that leaves such a flag
\* with a new value its validator rejects ends Parse with an error, before any
\* later token is read.
ValidatorRunsAtAssignment ==
    [][ \A n \in FlagNames :
          (/\ call'.pc # "idle"
           /\ fs'.flags[n].value # fs.flags[n].value
           /\ ~ValidatorAccepts(fs.flags[n].validator, fs'.flags[n].value))
          => (call'.pc = "done" /\ call'.err # NoErr) ]_vars

\* C26: within one Parse call a flag's changed state never goes from true to
\* false; only Reset, between two Parse calls, clears it.
ChangedNeverCleared ==
    [][ \A n \in FlagNames :
          (Changed(n) /\ ~Changed(n)') => (call.pc = "done" /\ call'.pc = "idle") ]_vars

\* a flag the environment had set is assigned again by a command-line token, its
\* validator rejects the new value, and the flag is still changed
ChangedNeverClearedWitness ==
    /\ ParseReturned /\ call.err = Err("validation_failed", PortName)
    /\ EnvSupplies(PortName) /\ CliMentions(PortName)
    /\ Changed(PortName)

\* C27: after a short flag -x of a registered non-Bool flag, the next token is
\* taken whole as the raw value, whatever it looks like (--help, a token beginning
\* with "-"): the step does exactly what setFlagValue does with that token, never
\* reads it as a flag, and on success moves past exactly two tokens.
ShortFlagTakesNextToken ==
    [][ (/\ AtToken /\ HasNextToken
         /\ Len(Token) = 2 /\ Token[1] = "-" /\ IsValueKey(Token[2]))
        => LET r == setFlagValue(fs.flags, KeyFlag(Token[2]), NextToken)
           IN  /\ fs'.flags = r.flags
               /\ call'.err = r.err
               /\ call'.steps.tokens = call.steps.tokens + 1
               /\ IF r.err = NoErr
                  THEN call'.pc = "args" /\ call'.i = call.i + 2
                  ELSE call'.pc = "done" ]_vars

\* Parse(["-p", "--help"]) took --help as the value of port: it ends with the
\* conversion error of port, not with the help request, after a single step
ShortFlagTakesNextTokenWitness ==
    /\ ParseReturned
    /\ call.args = << <<"-", "p">>, Long(<<"h", "e", "l", "p">>) >>
    /\ call.err.kind # "help_requested" /\ call.err.flag = PortName
    /\ call.steps.tokens = 1

(***************************************************************************)
(* Registration.  The application registers flags one after the other on a *)
(* new FlagSet; it may register a name again and may give a short key that *)
(* is already in use.  Here shortMap holds the Flag the registration       *)
(* stored, as the Go map holds the pointer, not the flag's name: a Flag    *)
(* that has been replaced in fs.flags is still what an old shortMap entry  *)
(* points to.  Two Flags reachable here are the same object exactly when   *)
(* they agree on name, type and short key.                                 *)
(***************************************************************************)
\* FlagSet.StringVar
StringVar(name, shortKey) ==
    /\ \E flag \in {NewFlag(name, "string", shortKey, <<>>)} :
          fs' = [fs EXCEPT !.flags = (name :> flag) @@ @,
                           !.shortMap = IF shortKey # <<>> THEN (shortKey :> flag) @@ @ ELSE @]
    /\ UNCHANGED <<world, call, parses, readers>>

\* FlagSet.BoolVar
BoolVar(name, shortKey) ==
    /\ \E flag \in {NewFlag(name, "bool", shortKey, FALSE)} :
          fs' = [fs EXCEPT !.flags = (name :> flag) @@ @,
                           !.shortMap = IF shortKey # <<>> THEN (shortKey :> flag) @@ @ ELSE @]
    /\ UNCHANGED <<world, call, parses, readers>>

\* New(name): both maps empty; nothing is parsed or read in this specification
RegisterInit ==
    /\ fs = [flags |-> <<>>, shortMap |-> <<>>]
    /\ world = [files |-> <<>>, environ |-> <<>>]
    /\ call = Idle
    /\ parses = 0
    /\ readers = NoReaders

RegisterNext ==
    \E name \in {PortName, VerboseName}, shortKey \in {<<>>, <<"p">>, <<"v">>} :
        \/ StringVar(name, shortKey)
        \/ BoolVar(name, shortKey)

RegisterSpec == RegisterInit /\ [][RegisterNext]_vars

\* C28: after any sequence of registrations, every registered flag with a
\* non-empty short key is the flag the short-key index returns for that key, and
\* every entry of the index is a flag that is in the registry under its long name.
ShortKeyIndexConsistent ==
    LET Same(a, b) == a.name = b.name /\ a.flagType = b.flagType /\ a.shortKey = b.shortKey
    IN  /\ \A n \in DOMAIN fs.flags :
              fs.flags[n].shortKey # <<>> =>
                 /\ fs.flags[n].shortKey \in DOMAIN fs.shortMap
                 /\ Same(fs.shortMap[fs.flags[n].shortKey], fs.flags[n])
        /\ \A k \in DOMAIN fs.shortMap :
              /\ fs.shortMap[k].name \in DOMAIN fs.flags
              /\ Same(fs.flags[fs.shortMap[k].name], fs.shortMap[k])

(***************************************************************************)
(* What a failed Parse leaves behind.  In every Parse of the model the     *)
(* flags start at their defaults, unchanged (a new FlagSet, or one that    *)
(* Reset has just restored), so "as before the call" is "at the default".  *)
(***************************************************************************)
\* C29 as stated: a Parse call that returns an error leaves every flag's value
\* and changed state exactly as they were before the call.
FailedParseChangesNothing ==
    (ParseReturned /\ call.err # NoErr) =>
        \A n \in FlagNames : Holds(n, fs.flags[n].defaultValue) /\ ~Changed(n)

\* C29 as the code has it: a Parse call that fails undoes nothing.  The step that
\* fails (the config file, the environment, a token, or the final validation)
\* leaves every flag as the steps before it left it, except the flags that this
\* very step assigned: the flag the error names, and for the two loaders the flags
\* their source supplies.  Only Reset restores the defaults.
ErrorKeepsEarlierAssignments ==
    [][ (call.pc # "done" /\ call'.pc = "done" /\ call'.err # NoErr) =>
          \A n \in FlagNames :
             \/ fs'.flags[n] = fs.flags[n]
             \/ call.pc = "idle" /\ ConfigSupplies(n)'
             \/ call.pc = "env" /\ EnvSupplies(n) /\ ~Changed(n)
             \/ call.pc = "args" /\ call'.steps.validate = 0 /\ call'.err.flag = n ]_vars

\* Parse(["--port=3000", "--port=x"]) has failed on its second token and the port
\* still holds the 3000 of the first, marked changed
ErrorKeepsEarlierAssignmentsWitness ==
    /\ ParseReturned /\ call.err.kind = "invalid_int" /\ call.steps.tokens = 2
    /\ Holds(PortName, 3000) /\ Changed(PortName)
    /\ fs.flags[PortName].defaultValue = 8080

\* C30: the outcome of Parse (the error, and the values and changed states of the
\* flags) is a function of the registrations, the constraints, the config file,
\* the environment and the argument list alone: the order in which Go iterates
\* over the flag registry and over the keys of the config object has no part in
\* it.  For the first Parse of a FlagSet: every outcome Parse can end with on
\* these inputs is the one outcome it did end with.
ParseOutcomeDetermined ==
    (ParseReturned /\ parses = 1) =>
        Parse(Fresh(fs), world.files, world.environ, call.args)
            = {[flags |-> fs.flags, err |-> call.err]}

====
